---- MODULE Spec2Model ----
(***************************************************************************)
(* A model of the MPQ archive reader (package mpq): opening an archive     *)
(* (New, NewFromFile, diveIn), looking a file up by the hashes of its name *)
(* (FileByHash) and closing the archive (Close).                           *)
(*                                                                         *)
(* Number representation.  The model checker's integers are 32-bit signed, *)
(* so a Go uint32 is held as the int32 with the same bit pattern           *)
(* (0xffffffff is -1, 0xfffffffe is -2, 0x80000000 is -2147483648) and all *)
(* uint32 arithmetic is done on 16-bit halves, wrapping modulo 2^32 as Go  *)
(* does.  An int64 offset is held as <<h, l>> standing for h * 2^24 + l.   *)
(***************************************************************************)
EXTENDS Integers, Sequences, FiniteSets, TLC

(***************************************************************************)
(* uint32 arithmetic                                                       *)
(***************************************************************************)
Half == 2 ^ 16

Hi(x) == (x \div Half) % Half
Lo(x) == x % Half

\* the uint32 with upper half hi and lower half lo
U32(hi, lo) == IF hi >= 32768 THEN (hi - Half) * Half + lo ELSE hi * Half + lo

Add32(a, b) ==
    LET lo == Lo(a) + Lo(b)
        hi == Hi(a) + Hi(b) + (lo \div Half)
    IN  U32(hi % Half, lo % Half)

Sub32(a, b) ==
    LET lo == Lo(a) - Lo(b)
        hi == Hi(a) - Hi(b) + (lo \div Half)
    IN  U32(hi % Half, lo % Half)

\* unsigned a < b
ULt(a, b) == \/ Hi(a) < Hi(b)
             \/ Hi(a) = Hi(b) /\ Lo(a) < Lo(b)

UGe(a, b) == ~ULt(a, b)

\* a & b for 4-bit a and b, tabulated
And4 ==
    [a \in 0..15 |-> [b \in 0..15 |->
        LET B(k) == ((a \div (2 ^ k)) % 2) * ((b \div (2 ^ k)) % 2) * (2 ^ k)
        IN  B(0) + B(1) + B(2) + B(3)]]

\* a & b for 16-bit a and b
And16(a, b) ==
    And4[a % 16][b % 16]
    + 16 * And4[(a \div 16) % 16][(b \div 16) % 16]
    + 256 * And4[(a \div 256) % 16][(b \div 256) % 16]
    + 4096 * And4[a \div 4096][b \div 4096]

\* a & b
BitAnd(a, b) == U32(And16(Hi(a), Hi(b)), And16(Lo(a), Lo(b)))

\* x * y as a uint32, for 16-bit x and y
Mul16(x, y) ==
    LET p0 == x * (y % 256)
        p1 == x * (y \div 256)
    IN  Add32(p0, U32(p1 \div 256, (p1 % 256) * 256))

\* a * b (mod 2^32)
Mul32(a, b) ==
    Add32(Mul16(Lo(a), Lo(b)),
          U32((Lo(Mul16(Hi(a), Lo(b))) + Lo(Mul16(Lo(a), Hi(b)))) % Half, 0))

\* a << s for a uint32 a: Go yields 0 once s reaches the width
Shl32(a, s) ==
    IF s >= 32 THEN 0
    ELSE Mul32(a, IF s = 31 THEN U32(32768, 0) ELSE 2 ^ s)

\* unsigned a / d for d # 0
UDiv32(a, d) ==
    IF d < 0 THEN (IF UGe(a, d) THEN 1 ELSE 0)         \* d >= 2^31
    ELSE IF a >= 0 THEN a \div d
    ELSE \* a = 2^31 + a2, and 2^31 = q1 * d + r1 with 1 <= r1 <= d
         LET a2 == a + 2147483647 + 1
             q1 == 2147483647 \div d
             r1 == (2147483647 % d) + 1
             q2 == a2 \div d
             r2 == a2 % d
         IN  Add32(Add32(q1, q2), IF r1 >= d - r2 THEN 1 ELSE 0)

(***************************************************************************)
(* int64 offsets, <<h, l>> = h * 2^24 + l                                  *)
(***************************************************************************)
Limb == 2 ^ 24

Off(n) == <<n \div Limb, n % Limb>>              \* a small natural number

OffU32(x) == <<Hi(x) \div 256, (Hi(x) % 256) * Half + Lo(x)>>   \* int64(x), x uint32

OffHigh(w) == <<w * 256, 0>>                     \* int64(w) << 32, w uint16

OffAdd(a, b) == <<a[1] + b[1] + ((a[2] + b[2]) \div Limb), (a[2] + b[2]) % Limb>>

OffLe(a, b) == a[1] < b[1] \/ (a[1] = b[1] /\ a[2] <= b[2])

OffMax(a, b) == IF OffLe(a, b) THEN b ELSE a

OffZero == <<0, 0>>

\* the number a uint32 stands for, where it is the length of a slice or
\* the bound of a loop
Unsigned(x) == IF x < 0 THEN x + Half * Half ELSE x

\* A uint64 is held as its top bit and an offset for the rest (the model
\* holds no value between 2^55 and 2^63): top * 2^63 + low.
U64(top, low) == [top |-> top, low |-> low]

U64Zero == U64(0, OffZero)

\* int64(u) is negative
Int64Negative(u) == u.top = 1

(***************************************************************************)
(* Constants of the package                                                *)
(***************************************************************************)
beFlagFile            == U32(32768, 0)     \* 0x80000000
beFlagSingle          == U32(256, 0)       \* 0x01000000
beFlagExtra           == U32(1024, 0)      \* 0x04000000
beFlagCompressed      == 65280             \* 0x0000FF00
beFlagPKWare          == 256               \* 0x00000100
beFlagCompressedMulti == 512               \* 0x00000200
beFlagEncrypted       == U32(1, 0)         \* 0x00010000

userDataMagic == <<77, 80, 81, 27>>        \* 'M', 'P', 'Q', 0x1b
headerMagic   == <<77, 80, 81, 26>>        \* 'M', 'P', 'Q', 0x1a

hashTableKey  == U32(50095, 14192)         \* 0xc3af3770
blockTableKey == U32(60547, 45987)         \* 0xec83b3a3

EmptySlot   == U32(65535, 65535)           \* fileBlockIndex 0xffffffff
DeletedSlot == U32(65535, 65534)           \* fileBlockIndex 0xfffffffe

\* error values
NoError           == "nil"
ErrInvalidArchive == "ErrInvalidArchive"
ErrEOF            == "io.EOF"
ErrUnexpectedEOF  == "io.ErrUnexpectedEOF"
ErrNotExist       == "os.ErrNotExist"
ErrDecompress     == "decompress error"

(***************************************************************************)
(* The input (an io.ReadSeeker over a byte string).                        *)
(*                                                                         *)
(* An input is described by its length in bytes and by what its bytes      *)
(* decode to at the places the reader looks at:                            *)
(*   head               the first four bytes                               *)
(*   ud                 the user data fields stored at bytes 4..11         *)
(*   hdrAt, hdrMagic, hdr   the header (magic and fields) stored at hdrAt  *)
(*   htAt, ht           the encrypted hash table stored at htAt            *)
(*   btAt, bt           the encrypted block table stored at btAt           *)
(*   extAt, ext         the 16-bit words stored at extAt                   *)
(*   pboAt, pbo         the 32-bit words stored at pboAt                   *)
(* Bytes at any other place read as zero.  A read that runs past size      *)
(* fails as io.ReadFull fails.  strict tells whether Seek rejects an       *)
(* offset beyond the end (bytes.Reader and os.File accept it).             *)
(***************************************************************************)
ZeroMagic == <<0, 0, 0, 0>>

ZeroHeader ==
    [size |-> 0, archiveSize |-> 0, formatVersion |-> 0, sectorSizeShift |-> 0,
     hashTableOffset |-> 0, blockTableOffset |-> 0,
     hashTableEntries |-> 0, blockTableEntries |-> 0,
     extendedBlockTableOffset |-> U64Zero,
     hashTableOffsetHigh |-> 0, blockTableOffsetHigh |-> 0]

ZeroHashEntry ==
    [filePathHashA |-> 0, filePathHashB |-> 0, language |-> 0, platform |-> 0,
     fileBlockIndex |-> 0]

ZeroBlockEntry == [blockOffset |-> 0, blockSize |-> 0, fileSize |-> 0, flags |-> 0]

\* Bytes that are no table stored under the key they are decrypted with
\* come out of decrypt as words the model does not determine.
Undetermined == "undetermined"

UndeterminedHashEntry ==
    [filePathHashA |-> Undetermined, filePathHashB |-> Undetermined,
     language |-> Undetermined, platform |-> Undetermined,
     fileBlockIndex |-> Undetermined]

UndeterminedBlockEntry ==
    [blockOffset |-> Undetermined, blockSize |-> Undetermined,
     fileSize |-> Undetermined, flags |-> Undetermined]

\* io.ReadFull(in, buf) with len(buf) = len at position pos: the error
ReadFullErr(in, pos, len) ==
    IF len = OffZero THEN NoError
    ELSE IF OffLe(OffAdd(pos, len), Off(in.size)) THEN NoError
    ELSE IF OffLe(Off(in.size), pos) THEN ErrEOF
    ELSE ErrUnexpectedEOF

\* ... and the position it leaves the input at
ReadFullPos(in, pos, len) ==
    IF ReadFullErr(in, pos, len) = NoError THEN OffAdd(pos, len)
    ELSE OffMax(pos, Off(in.size))

\* (variant: the offset taken relative to the current position)
SeekCurrent(pos, off) == OffAdd(pos, off)

\* the position in.Seek(off, 0) moves the input to, from position pos
SeekStart(pos, off) == off

\* in.Seek(off, 0) succeeds
SeekOK(in, off) == ~(in.strict /\ ~OffLe(off, Off(in.size)))

MagicAt(in, pos) ==
    IF pos = OffZero THEN in.head
    ELSE IF pos = Off(in.hdrAt) THEN in.hdrMagic
    ELSE ZeroMagic

HeaderAt(in, pos) == IF pos = Off(in.hdrAt + 4) THEN in.hdr ELSE ZeroHeader

UserDataAt(in, pos) == IF pos = Off(4) THEN in.ud ELSE [size |-> 0, headerOffset |-> 0]

\* the n 16-byte entries read from pos on, still encrypted: entry i is
\* entry i of the table stored at pos, under the key of that table, or
\* other bytes of the input.  (With no hash entries the block table starts
\* where the hash table would.)
StoredTableAt(in, pos, n) ==
    [i \in 1..n |->
        IF pos = Off(in.htAt) /\ i <= Len(in.ht.plain)
        THEN [key |-> in.ht.key, plain |-> in.ht.plain[i], stored |-> TRUE]
        ELSE IF pos = Off(in.btAt) /\ i <= Len(in.bt.plain)
        THEN [key |-> in.bt.key, plain |-> in.bt.plain[i], stored |-> TRUE]
        ELSE [key |-> 0, plain |-> <<>>, stored |-> FALSE]]

\* the little-endian uint32 stored at pos
U32At(in, pos) ==
    LET k == (pos[2] - in.pboAt) \div 4
    IN  IF pos[1] = 0 /\ pos[2] >= in.pboAt /\ (pos[2] - in.pboAt) % 4 = 0
           /\ k < Len(in.pbo)
        THEN in.pbo[k + 1] ELSE 0

\* decrypt(buf, key): an entry of a table comes out in clear under the key
\* the table was stored with; anything else comes out undetermined
decrypt(buf, key, undetermined) ==
    [i \in 1..Len(buf) |->
        IF buf[i].stored /\ buf[i].key = key THEN buf[i].plain ELSE undetermined]

(***************************************************************************)
(* Opening an archive: New, NewFromFile, diveIn                            *)
(***************************************************************************)
NoHandle == [open |-> FALSE]

At(seq, i) == seq[Unsigned(i) + 1]         \* Go's seq[i], indices from 0

\* the read closure of diveIn applied to fields of the given widths in
\* turn: a no-op once an error is recorded
RECURSIVE read(_, _, _, _)
read(in, pos, widths, err) ==
    IF widths = <<>> THEN [err |-> err, pos |-> pos]
    ELSE IF err # NoError THEN read(in, pos, Tail(widths), err)
    ELSE read(in, ReadFullPos(in, pos, Off(Head(widths))), Tail(widths),
              ReadFullErr(in, pos, Off(Head(widths))))

\* "Check Header"
IsHeaderMagic(magic) == magic = headerMagic

\* (variant: every block entry counted, file or not)
RECURSIVE CountFiles_all(_, _, _, _)
CountFiles_all(blockTable, i, indices, filesCount) ==
    IF i >= Len(blockTable) THEN [blockEntryIndices |-> indices, filesCount |-> filesCount]
    ELSE CountFiles_all(blockTable, i + 1,
                        [indices EXCEPT ![Unsigned(filesCount) + 1] = i],
                        Add32(filesCount, 1))

\* "Count valid files in the archive": blockEntryIndices and filesCount
RECURSIVE CountFiles(_, _, _, _)
CountFiles(blockTable, i, indices, filesCount) ==
    IF i >= Len(blockTable) THEN [blockEntryIndices |-> indices, filesCount |-> filesCount]
    ELSE IF BitAnd(At(blockTable, i).flags, beFlagFile) # 0
         THEN CountFiles(blockTable, i + 1,
                         [indices EXCEPT ![Unsigned(filesCount) + 1] = i],
                         Add32(filesCount, 1))
         ELSE CountFiles(blockTable, i + 1, indices, filesCount)

\* the error of binary.Read on a bytes.Reader with remaining bytes left
\* when asked for n bytes
ReaderErr(remaining, n) ==
    IF remaining = 0 THEN ErrEOF
    ELSE IF remaining < n THEN ErrUnexpectedEOF
    ELSE NoError

\* reading the extended block table: the words and the error diveIn ends
\* up with.  The loop reads count uint16s from r, the bytes.Reader over the
\* block table buffer, all of whose bufLen bytes the block table parse has
\* consumed (16 per entry); err keeps the result of the last read.
ReadExtWords(in, pos, count, bufLen) ==
    LET parsed    == 16 * Unsigned(count)
        remaining == IF parsed < bufLen THEN bufLen - parsed ELSE 0
    IN  [words |-> [i \in 1..Unsigned(count) |-> 0],
         err   |-> IF count = 0 THEN NoError ELSE ReaderErr(remaining, 2)]

Failed(err, pos) == [m |-> NoHandle, err |-> err, pos |-> pos]

\* the number of whole entries in the buffer a table of n entries is read
\* with: its length is n * 16 taken in uint32
EntriesRead(n) == UDiv32(Mul32(n, 16), 16)

\* the table of n entries made and filled from the decrypted buffer: the
\* reads behind the end of the buffer fail unnoticed and leave the entries
\* as make created them
ParseTable(buf, n, zero) ==
    [i \in 1..Unsigned(n) |-> IF i <= Len(buf) THEN buf[i] ELSE zero]

\* the run-time panic of a slice expression beyond the capacity
ErrSliceBounds == "slice bounds out of range"

\* the capacity of buf: 16 bytes for each entry of the larger table, the
\* product taken in uint32
BufCap(h) ==
    IF ULt(h.blockTableEntries, h.hashTableEntries)
    THEN Mul32(h.hashTableEntries, 16)
    ELSE Mul32(h.blockTableEntries, 16)

\* buf[:len] stays within the capacity
SliceOK(len, cap) == ~ULt(cap, len)

diveIn(in, isFile) ==
    LET magic0   == MagicAt(in, OffZero)
        e0       == ReadFullErr(in, OffZero, Off(4))
        p0       == ReadFullPos(in, OffZero, Off(4))
        hasUD    == magic0 = userDataMagic
        u        == UserDataAt(in, p0)
        uf       == read(in, p0, <<4, 4>>, NoError)
        uErr     == IF uf.err = NoError THEN ReadFullErr(in, uf.pos, OffU32(u.size))
                    ELSE uf.err
        uPos     == IF uf.err = NoError THEN ReadFullPos(in, uf.pos, OffU32(u.size))
                    ELSE uf.pos
        headerOffset == IF hasUD THEN OffU32(u.headerOffset) ELSE OffZero
        e1       == ReadFullErr(in, headerOffset, Off(4))
        magic    == IF hasUD THEN MagicAt(in, headerOffset) ELSE magic0
        p1       == IF hasUD THEN ReadFullPos(in, headerOffset, Off(4)) ELSE p0
        hAll     == HeaderAt(in, p1)
        r0       == read(in, p1, <<4, 4, 2, 2, 4, 4, 4, 4>>, NoError)
        r1       == IF hAll.formatVersion > 0 THEN read(in, r0.pos, <<8, 2, 2>>, r0.err)
                    ELSE r0
        h        == IF hAll.formatVersion > 0 THEN hAll
                    ELSE [hAll EXCEPT !.extendedBlockTableOffset = U64Zero,
                                      !.hashTableOffsetHigh = 0,
                                      !.blockTableOffsetHigh = 0]
        htPos    == OffAdd(OffAdd(OffHigh(h.hashTableOffsetHigh), OffU32(h.hashTableOffset)),
                           headerOffset)
        htLen    == OffU32(Mul32(h.hashTableEntries, 16))
        hashTable == ParseTable(decrypt(StoredTableAt(in, htPos,
                                                      EntriesRead(h.hashTableEntries)),
                                        hashTableKey, UndeterminedHashEntry),
                                h.hashTableEntries, ZeroHashEntry)
        btPos    == OffAdd(OffAdd(OffHigh(h.blockTableOffsetHigh), OffU32(h.blockTableOffset)),
                           headerOffset)
        btLen    == OffU32(Mul32(h.blockTableEntries, 16))
        blockTable == ParseTable(decrypt(StoredTableAt(in, btPos,
                                                       EntriesRead(h.blockTableEntries)),
                                         blockTableKey, UndeterminedBlockEntry),
                                 h.blockTableEntries, ZeroBlockEntry)
        hasExt   == h.extendedBlockTableOffset # U64Zero
        extPos   == OffAdd(h.extendedBlockTableOffset.low, headerOffset)
        ext      == ReadExtWords(in, extPos, h.blockTableEntries,
                                 Unsigned(Mul32(h.blockTableEntries, 16)))
        endPos   == IF hasExt THEN extPos ELSE ReadFullPos(in, btPos, btLen)
        files    == CountFiles(blockTable, 0,
                               [i \in 1..Unsigned(h.blockTableEntries) |-> 0], 0)
    IN  IF e0 # NoError THEN Failed(e0, p0)
        ELSE IF hasUD /\ uErr # NoError THEN Failed(ErrInvalidArchive, uPos)
        ELSE IF hasUD /\ ~SeekOK(in, headerOffset) THEN Failed(ErrInvalidArchive, uPos)
        ELSE IF hasUD /\ e1 # NoError THEN Failed(e1, p1)
        ELSE IF ~IsHeaderMagic(magic) THEN Failed(ErrInvalidArchive, p1)
        ELSE IF r0.err # NoError THEN Failed(ErrInvalidArchive, r0.pos)
        ELSE IF r1.err # NoError THEN Failed(ErrInvalidArchive, r1.pos)
        ELSE IF ~SeekOK(in, htPos) THEN Failed(ErrInvalidArchive, r1.pos)
        ELSE IF ~SliceOK(Mul32(h.hashTableEntries, 16), BufCap(h))
             THEN Failed(ErrSliceBounds, htPos)
        ELSE IF ReadFullErr(in, htPos, htLen) # NoError
             THEN Failed(ErrInvalidArchive, ReadFullPos(in, htPos, htLen))
        ELSE IF ~SeekOK(in, btPos)
             THEN Failed(ErrInvalidArchive, ReadFullPos(in, htPos, htLen))
        ELSE IF ~SliceOK(Mul32(h.blockTableEntries, 16), BufCap(h))
             THEN Failed(ErrSliceBounds, btPos)
        ELSE IF ReadFullErr(in, btPos, btLen) # NoError
             THEN Failed(ErrInvalidArchive, ReadFullPos(in, btPos, btLen))
        ELSE IF hasExt /\ (Int64Negative(h.extendedBlockTableOffset) \/ ~SeekOK(in, extPos))
             THEN Failed(ErrInvalidArchive, ReadFullPos(in, btPos, btLen))
        ELSE IF hasExt /\ ext.err # NoError THEN Failed(ErrInvalidArchive, extPos)
        ELSE [m   |-> [open       |-> TRUE,
                       file       |-> isFile,
                       userData   |-> IF hasUD
                                      THEN [present |-> TRUE, size |-> u.size,
                                            headerOffset |-> u.headerOffset]
                                      ELSE [present |-> FALSE, size |-> 0,
                                            headerOffset |-> 0],
                       header     |-> h,
                       hashTable  |-> hashTable,
                       blockTable |-> blockTable,
                       extBlockEntryHighOffsets |->
                           [present |-> hasExt, words |-> IF hasExt THEN ext.words ELSE <<>>],
                       blockSize  |-> Shl32(512, h.sectorSizeShift),
                       blockEntryIndices |-> files.blockEntryIndices,
                       filesCount |-> files.filesCount],
              err |-> NoError,
              pos |-> endPos]

(***************************************************************************)
(* FileByHash: the directory probe                                         *)
(***************************************************************************)
\* the slot the probe starts at: h1 & (hashTableEntries - 1)
StartSlot(h1, hashTableEntries) == BitAnd(h1, Sub32(hashTableEntries, 1))

\* "if i == hashTableEntries { i = 0 }"
WrapSlot(i, hashTableEntries) == IF i = hashTableEntries THEN 0 ELSE i

\* the uint32 i is a valid index of a slice of length n: i < n, taken
\* unsigned (i + 2^32 < n for an i of 2^31 or more, which is held as
\* i - 2^32)
InRange(i, n) ==
    IF i >= 0 THEN i < n
    ELSE (i + 2147483647) + 1 < (n - 2147483647) - 1

\* (variant: the hashes compared before the empty mark is looked at)
ProbeDecision_matchFirst(hashEntry, h2, h3) ==
    IF hashEntry.filePathHashA = h2 /\ hashEntry.filePathHashB = h3 THEN "found"
    ELSE IF hashEntry.fileBlockIndex = EmptySlot THEN "break"
    ELSE "continue"

\* what one iteration of the probe loop does with the slot it looks at
ProbeDecision(hashEntry, h2, h3) ==
    IF hashEntry.fileBlockIndex = EmptySlot THEN "break"
    ELSE IF hashEntry.filePathHashA # h2 \/ hashEntry.filePathHashB # h3 THEN "continue"
    ELSE "found"

(***************************************************************************)
(* FileByHash: from the matched hash entry to the block entry              *)
(***************************************************************************)
\* the loop counting the block entries before fileBlockIndex that are not
\* files; indexing blockTable past its end panics
RECURSIVE CountNonFiles(_, _, _, _)
CountNonFiles(blockTable, fileBlockIndex, j, counter) ==
    IF ~ULt(j, fileBlockIndex) THEN [panic |-> FALSE, counter |-> counter]
    ELSE IF ~InRange(j, Len(blockTable)) THEN [panic |-> TRUE, counter |-> counter]
    ELSE CountNonFiles(blockTable, fileBlockIndex, Add32(j, 1),
                       IF BitAnd(At(blockTable, j).flags, beFlagFile) = 0
                       THEN Add32(counter, 1) ELSE counter)

\* "fileIndex := hashEntry.fileBlockIndex", the index taken as it is
FileIndex_raw(fileBlockIndex, counter) == fileBlockIndex

\* "fileIndex := hashEntry.fileBlockIndex - counter"
FileIndex(fileBlockIndex, counter) == Sub32(fileBlockIndex, counter)

\* "if fileIndex < 0 || fileIndex >= m.filesCount { return nil, nil }"
FileIndexOutOfRange(fileIndex, filesCount) == UGe(fileIndex, filesCount)

(***************************************************************************)
(* FileByHash: assembling the content of a block                           *)
(***************************************************************************)
NilContent == [isNil |-> TRUE, len |-> 0, sectors |-> <<>>]

Return(content, err, slot, rawBlock, pos) ==
    [res |-> [kind |-> "return", content |-> content, err |-> err,
              slot |-> slot, rawBlock |-> rawBlock],
     pos |-> pos]

Panic(what, slot, rawBlock, pos) ==
    [res |-> [kind |-> "panic", content |-> NilContent, err |-> what,
              slot |-> slot, rawBlock |-> rawBlock],
     pos |-> pos]

HasFlag(blockEntry, flag) == BitAnd(blockEntry.flags, flag) # 0

\* blockOffsetBase
BlockOffsetBase(m, blockEntry, blockEntryIndex) ==
    LET b0 == OffU32(blockEntry.blockOffset)
        b1 == IF m.extBlockEntryHighOffsets.present
              THEN OffAdd(b0, OffHigh(At(m.extBlockEntryHighOffsets.words, blockEntryIndex)))
              ELSE b0
    IN  IF m.userData.present THEN OffAdd(b1, OffU32(m.userData.headerOffset)) ELSE b1

\* blocksCount (m.blockSize # 0 unless the block is a single unit)
BlocksCount(blockEntry, blockSize) ==
    IF HasFlag(blockEntry, beFlagSingle) THEN 1
    ELSE UDiv32(Sub32(Add32(blockEntry.fileSize, blockSize), 1), blockSize)

\* the number of entries of packedBlockOffsets
PackedOffsetsLen(blockEntry, blocksCount) ==
    IF HasFlag(blockEntry, beFlagExtra) THEN Add32(blocksCount, 2) ELSE Add32(blocksCount, 1)

\* the packed block offset table is loaded from the input
LoadsPackedOffsets(blockEntry) ==
    HasFlag(blockEntry, beFlagCompressed) /\ ~HasFlag(blockEntry, beFlagSingle)

\* packedBlockOffsets[k]; tabAt is where the table was loaded from
PackedBlockOffset(m, in, blockEntry, tabAt, blocksCount, k) ==
    IF LoadsPackedOffsets(blockEntry) THEN U32At(in, OffAdd(tabAt, OffU32(Mul32(k, 4))))
    ELSE IF ~HasFlag(blockEntry, beFlagSingle)
         THEN (IF k = blocksCount THEN blockEntry.blockSize
               ELSE IF ULt(k, blocksCount) THEN Mul32(k, m.blockSize)
               ELSE 0)
         ELSE (IF k = 1 THEN blockEntry.blockSize ELSE 0)

\* unpackedSize of block k
UnpackedSize(m, blockEntry, blocksCount, k) ==
    IF HasFlag(blockEntry, beFlagSingle) THEN blockEntry.fileSize
    ELSE IF ULt(k, Sub32(blocksCount, 1)) THEN m.blockSize
    ELSE Sub32(blockEntry.fileSize, Mul32(m.blockSize, k))

\* decompressMulti(dst, src), src being the inSize bytes of the input at
\* srcPos: no error when it fills dst
decompressMulti(in, srcPos, inSize, dstLen) ==
    IF inSize # 0 /\ in.codecOK THEN NoError ELSE ErrDecompress

UMin(a, b) == IF ULt(a, b) THEN a ELSE b

\* "content := make([]byte, blockEntry.fileSize)", but nil when there is
\* nothing to hold
MakeContent_nilWhenEmpty(fileSize) ==
    [isNil |-> fileSize = 0, len |-> fileSize, sectors |-> <<>>]

\* "content := make([]byte, blockEntry.fileSize)"
MakeContent(fileSize) == [isNil |-> FALSE, len |-> fileSize, sectors |-> <<>>]

\* the loop over the blocks of the file, from block k on; ids is
\* <<hash slot, block entry index, place of the packed block offset table>>
RECURSIVE ReadBlocks(_, _, _, _, _, _, _, _, _, _)
ReadBlocks(m, in, blockEntry, base, blocksCount, k, contentIndex, sectors, pos, ids) ==
    IF ~ULt(k, blocksCount)
    THEN Return([MakeContent(blockEntry.fileSize) EXCEPT !.sectors = sectors],
                NoError, ids[1], ids[2], pos)
    ELSE
    LET unpackedSize == UnpackedSize(m, blockEntry, blocksCount, k)
        pbo0     == PackedBlockOffset(m, in, blockEntry, ids[3], blocksCount, k)
        pbo1     == PackedBlockOffset(m, in, blockEntry, ids[3], blocksCount, Add32(k, 1))
        inSize   == Sub32(pbo1, pbo0)
        srcPos   == SeekStart(pos, OffAdd(base, OffU32(pbo0)))
        readErr  == ReadFullErr(in, srcPos, OffU32(inSize))
        readPos  == ReadFullPos(in, srcPos, OffU32(inSize))
        dstEnd   == Add32(contentIndex, unpackedSize)
        sector(op, n) == [k |-> k, op |-> op, dst |-> contentIndex, src |-> srcPos,
                          inSize |-> inSize, unpackedSize |-> unpackedSize, written |-> n]
    IN  IF ~SeekOK(in, srcPos) THEN Return(NilContent, ErrInvalidArchive, ids[1], ids[2], pos)
        ELSE IF readErr # NoError
             THEN Return(NilContent, ErrInvalidArchive, ids[1], ids[2], readPos)
        ELSE IF HasFlag(blockEntry, beFlagEncrypted)
             THEN Return(NilContent, ErrInvalidArchive, ids[1], ids[2], readPos)
        ELSE IF HasFlag(blockEntry, beFlagCompressedMulti)
             THEN IF ULt(dstEnd, contentIndex) \/ ULt(blockEntry.fileSize, dstEnd)
                  THEN Panic("slice bounds out of range", ids[1], ids[2], readPos)
                  ELSE IF decompressMulti(in, srcPos, inSize, unpackedSize) # NoError
                  THEN Return(NilContent, decompressMulti(in, srcPos, inSize, unpackedSize),
                              ids[1], ids[2], readPos)
                  ELSE ReadBlocks(m, in, blockEntry, base, blocksCount, Add32(k, 1), dstEnd,
                                  Append(sectors, sector("decompress", unpackedSize)),
                                  readPos, ids)
        ELSE IF HasFlag(blockEntry, beFlagPKWare)
             THEN Return(NilContent, ErrInvalidArchive, ids[1], ids[2], readPos)
        ELSE IF ULt(blockEntry.fileSize, contentIndex)
             THEN Panic("slice bounds out of range", ids[1], ids[2], readPos)
        ELSE ReadBlocks(m, in, blockEntry, base, blocksCount, Add32(k, 1), dstEnd,
                        Append(sectors,
                               sector("copy", UMin(Sub32(blockEntry.fileSize, contentIndex), inSize))),
                        readPos, ids)

\* the packed block offset table, then the blocks
Assemble(m, in, blockEntry, blockEntryIndex, slot, pos) ==
    LET base        == BlockOffsetBase(m, blockEntry, blockEntryIndex)
        blocksCount == BlocksCount(blockEntry, m.blockSize)
        temp        == PackedOffsetsLen(blockEntry, blocksCount)
        tabLen      == OffAdd(OffAdd(OffU32(temp), OffU32(temp)),
                              OffAdd(OffU32(temp), OffU32(temp)))     \* 4 bytes each
        tabAt       == SeekStart(pos, base)
        tabErr      == ReadFullErr(in, tabAt, tabLen)
        tabPos      == ReadFullPos(in, tabAt, tabLen)
    IN  IF ~HasFlag(blockEntry, beFlagSingle) /\ m.blockSize = 0
        THEN Panic("integer divide by zero", slot, blockEntryIndex, pos)
        ELSE IF LoadsPackedOffsets(blockEntry) /\ ~SeekOK(in, tabAt)
        THEN Return(NilContent, ErrInvalidArchive, slot, blockEntryIndex, pos)
        ELSE IF LoadsPackedOffsets(blockEntry) /\ tabErr # NoError
        THEN Return(NilContent, ErrInvalidArchive, slot, blockEntryIndex, tabPos)
        ELSE IF LoadsPackedOffsets(blockEntry) /\ HasFlag(blockEntry, beFlagEncrypted)
        THEN Return(NilContent, ErrInvalidArchive, slot, blockEntryIndex, tabPos)
        ELSE ReadBlocks(m, in, blockEntry, base, blocksCount, 0, 0, <<>>,
                        IF LoadsPackedOffsets(blockEntry) THEN tabPos ELSE pos,
                        <<slot, blockEntryIndex, tabAt>>)

\* "FOUND!": the rest of FileByHash once slot of the hash table matched
Found(m, in, slot, pos) ==
    LET hashEntry == At(m.hashTable, slot)
        cnt       == CountNonFiles(m.blockTable, hashEntry.fileBlockIndex, 0, 0)
        fileIndex == FileIndex(hashEntry.fileBlockIndex, cnt.counter)
        blockEntryIndex == At(m.blockEntryIndices, fileIndex)
    IN  IF cnt.panic THEN Panic("index out of range", slot, -1, pos)
        ELSE IF FileIndexOutOfRange(fileIndex, m.filesCount)
        THEN Return(NilContent, NoError, slot, -1, pos)
        ELSE IF ~InRange(fileIndex, Len(m.blockEntryIndices))
        THEN Panic("index out of range", slot, -1, pos)
        ELSE Assemble(m, in, At(m.blockTable, blockEntryIndex), blockEntryIndex, slot, pos)

(***************************************************************************)
(* The inputs the model opens                                              *)
(***************************************************************************)
MaxHashEntries  == 2      \* hash tables of 0..MaxHashEntries slots
MaxBlockEntries == 2      \* block tables of 0..MaxBlockEntries entries

\* layout of an archive, relative to its header: the header (44 bytes in
\* format version 1), the hash table, the block table, the extended block
\* table, the blocks
HeaderLenV0 == 4 + 28
HeaderLenV1 == HeaderLenV0 + 12
HtOff == HeaderLenV1
BtOff(nh) == HtOff + 16 * nh
ExtOff(nh, nb) == BtOff(nh) + 16 * nb
DataOff(nh, nb) == ExtOff(nh, nb) + 2 * nb

UserDataLen == 12 + 4      \* magic, two fields and four bytes of user data

HashEntry(a, b, index) ==
    [filePathHashA |-> a, filePathHashB |-> b, language |-> 0, platform |-> 0,
     fileBlockIndex |-> index]

\* an archive holding hash table ht and block table bt (whose block offsets
\* are relative to the start of the blocks), with dataLen bytes of blocks
MkInput(source, strict, head, hasUD, hdrMagic, version, shift, ht, bt, hasExt,
        pboRel, pbo, dataLen, codecOK) ==
    LET nh    == Len(ht)
        nb    == Len(bt)
        hdrAt == IF hasUD THEN UserDataLen ELSE 0
    IN  [source |-> source, exists |-> TRUE, strict |-> strict, codecOK |-> codecOK,
         size   |-> hdrAt + DataOff(nh, nb) + dataLen,
         head   |-> head,
         ud     |-> IF hasUD THEN [size |-> 4, headerOffset |-> hdrAt]
                    ELSE [size |-> 0, headerOffset |-> 0],
         hdrAt  |-> hdrAt,
         hdrMagic |-> hdrMagic,
         hdr    |-> [size |-> IF version > 0 THEN HeaderLenV1 ELSE HeaderLenV0,
                     archiveSize |-> DataOff(nh, nb) + dataLen,
                     formatVersion |-> version, sectorSizeShift |-> shift,
                     hashTableOffset |-> HtOff, blockTableOffset |-> BtOff(nh),
                     hashTableEntries |-> nh, blockTableEntries |-> nb,
                     extendedBlockTableOffset |->
                         IF hasExt THEN U64(0, Off(ExtOff(nh, nb))) ELSE U64Zero,
                     hashTableOffsetHigh |-> 0, blockTableOffsetHigh |-> 0],
         htAt   |-> hdrAt + HtOff,
         ht     |-> [key |-> hashTableKey, plain |-> ht],
         btAt   |-> hdrAt + BtOff(nh),
         bt     |-> [key |-> blockTableKey,
                     plain |-> [j \in 1..nb |->
                                  [bt[j] EXCEPT !.blockOffset = DataOff(nh, nb) + @]]],
         extAt  |-> hdrAt + ExtOff(nh, nb),
         ext    |-> [j \in 1..nb |-> j],
         pboAt  |-> hdrAt + DataOff(nh, nb) + pboRel,
         pbo    |-> pbo]

Truncate(in, size) == [in EXCEPT !.size = IF size < in.size THEN size ELSE in.size]

\* the two name fingerprints stored in the tables, and a third (h2, h3)
KeyA == <<7, 9>>
KeyB == <<7, 8>>
KeyC == <<6, 9>>

PlainFile(j) ==     \* an uncompressed single-unit file of 3 + j bytes
    [blockOffset |-> 8 * j, blockSize |-> 3 + j, fileSize |-> 3 + j,
     flags |-> Add32(beFlagFile, beFlagSingle)]

FreeBlock(j) == [blockOffset |-> 8 * j, blockSize |-> 0, fileSize |-> 0, flags |-> 0]

\* sequences of length 0..n over S
SeqsUpTo(S, n) == UNION {[1..k -> S] : k \in 0..n}

\* (1) archives cut short at every stage of opening, with and without user
\*     data, in both format versions, with and without extended block table
OtherMagic == <<73, 78, 86, 65>>           \* "INVA"

CutPoints(full, hdrAt, nb) ==
    {0, 1, 3, 4, 7, 8, 11, 12, UserDataLen - 1, UserDataLen, full,
     hdrAt + 2, hdrAt + 4, hdrAt + 20, hdrAt + HeaderLenV0, hdrAt + HeaderLenV1 - 1,
     hdrAt + HeaderLenV1, hdrAt + BtOff(1) - 1, hdrAt + BtOff(1),
     hdrAt + ExtOff(1, nb) - 1, hdrAt + ExtOff(1, nb), hdrAt + DataOff(1, nb)}

OpenInputs ==
    UNION { LET bt   == [j \in 1..nb |-> PlainFile(j - 1)]
                full == MkInput(source, strict, head, head = userDataMagic, hdrMagic,
                                version, 3, <<HashEntry(7, 9, 0)>>, bt, hasExt,
                                0, <<>>, 8 * nb, TRUE)
            IN  {Truncate(full, c) : c \in CutPoints(full.size, full.hdrAt, nb)}
          : source \in {"file", "reader"}, strict \in BOOLEAN,
            head \in {headerMagic, userDataMagic, OtherMagic},
            hdrMagic \in {headerMagic, OtherMagic},
            version \in {0, 1}, hasExt \in BOOLEAN, nb \in 0..1 }

MissingFile == [MkInput("file", FALSE, headerMagic, FALSE, headerMagic, 0, 3,
                        <<>>, <<>>, FALSE, 0, <<>>, 0, TRUE) EXCEPT !.exists = FALSE]

\* (2) complete archives with every hash table over two names and every
\*     block table of plain files and free blocks.  A slot of the first name
\*     carries any index (in the block table, one past it, beyond it, or a
\*     mark); a slot of the second name is live or empty.
HashEntries ==
    {HashEntry(KeyA[1], KeyA[2], x) : x \in (0..3) \cup {DeletedSlot, EmptySlot}}
    \cup {HashEntry(KeyB[1], KeyB[2], x) : x \in {0, EmptySlot}}

BlockTables ==
    UNION { {[j \in 1..n |-> IF j \in F THEN PlainFile(j - 1) ELSE FreeBlock(j - 1)]
             : F \in SUBSET (1..n)} : n \in 0..MaxBlockEntries }

LookupInputs ==
    { MkInput("reader", FALSE, headerMagic, FALSE, headerMagic, 0, 3, ht, bt, FALSE,
              0, <<>>, 8 * MaxBlockEntries + 8, TRUE)
      : ht \in SeqsUpTo(HashEntries, MaxHashEntries), bt \in BlockTables }

\* (3) archives of one file, stored in every combination of the storage
\*     flags, in several sizes, with all of its block or one byte less
StorageFlags == {beFlagSingle, beFlagCompressedMulti, beFlagPKWare, beFlagEncrypted,
                 beFlagExtra}

RECURSIVE FlagSum(_)
FlagSum(F) == IF F = {} THEN 0
              ELSE LET f == CHOOSE x \in F : TRUE IN Add32(f, FlagSum(F \ {f}))

FileSizes == {0, 1, 512, 513, 1100, U32(65535, 65535)}

SectorShifts == {0, 23}

PackedLen == 10     \* bytes a compressed block takes in the test archives

\* the number of blocks FileByHash reads for a file of fileSize bytes
SectorsOf(F, fileSize, shift) ==
    IF beFlagSingle \in F THEN 1
    ELSE IF shift # 0 \/ fileSize < 0 THEN 0
    ELSE (fileSize + 511) \div 512

CompressedIn(F) == beFlagCompressedMulti \in F \/ beFlagPKWare \in F

\* the packed block offset table stored in front of a compressed file
PboOf(F, fileSize, shift) ==
    LET c    == SectorsOf(F, fileSize, shift)
        temp == IF beFlagExtra \in F THEN c + 2 ELSE c + 1
    IN  IF CompressedIn(F) /\ beFlagSingle \notin F
        THEN [k \in 1..temp |-> 4 * temp + PackedLen * (IF k <= c THEN k - 1 ELSE c)]
        ELSE <<>>

\* the bytes the block of the file takes
BlockLenOf(F, fileSize, shift) ==
    IF ~CompressedIn(F) THEN fileSize
    ELSE IF beFlagSingle \in F THEN PackedLen
    ELSE 4 * Len(PboOf(F, fileSize, shift)) + PackedLen * SectorsOf(F, fileSize, shift)

AssembleInputs ==
    { LET len  == BlockLenOf(F, fileSize, shift)
          have == IF len < 0 THEN 2048 ELSE len
      IN  MkInput(IF hasUD THEN "file" ELSE "reader", FALSE,
                  IF hasUD THEN userDataMagic ELSE headerMagic, hasUD, headerMagic,
                  0, shift, <<HashEntry(7, 9, 0)>>,
                  <<[blockOffset |-> 0, blockSize |-> len, fileSize |-> fileSize,
                     flags |-> Add32(beFlagFile, FlagSum(F))]>>,
                  FALSE, 0, PboOf(F, fileSize, shift),
                  IF short /\ have > 0 THEN have - 1 ELSE have, codecOK)
      : F \in SUBSET StorageFlags, fileSize \in FileSizes, shift \in SectorShifts,
        short \in BOOLEAN, hasUD \in BOOLEAN, codecOK \in BOOLEAN }

\* (4) archives of one file stored as it is, as a single unit or in
\*     sectors of 512 bytes, whose block entry gives several stored lengths
\*     for the same file size; the input holds StoredBytes bytes of blocks
StoredFileSizes  == {0, 3, 513, 1030}
StoredBlockSizes == {0, 2, 3, 100, 513, 520, 1030}
StoredBytes == 1100

StoredInputs ==
    { MkInput("reader", FALSE, headerMagic, FALSE, headerMagic, 0, 0,
              <<HashEntry(KeyA[1], KeyA[2], 0)>>,
              <<[blockOffset |-> 0, blockSize |-> blockSize, fileSize |-> fileSize,
                 flags |-> Add32(beFlagFile, f)]>>,
              FALSE, 0, <<>>, StoredBytes, TRUE)
      : f \in {0, beFlagSingle}, fileSize \in StoredFileSizes,
        blockSize \in StoredBlockSizes }

\* (5) archives whose header gives a table 2^28 entries, so that sixteen
\*     times the number wraps to 0, or an extended block table offset with
\*     the top bit set
WrappingEntries == U32(4096, 0)

HeaderInputs ==
    UNION { LET one  == MkInput(source, strict, headerMagic, FALSE, headerMagic, 1, 3,
                                <<HashEntry(KeyA[1], KeyA[2], 0)>>, <<>>, FALSE,
                                0, <<>>, 8, TRUE)
                none == MkInput(source, strict, headerMagic, FALSE, headerMagic, 1, 3,
                                <<>>, <<PlainFile(0)>>, FALSE, 0, <<>>, 8, TRUE)
                both == MkInput(source, strict, headerMagic, FALSE, headerMagic, 1, 3,
                                <<HashEntry(KeyA[1], KeyA[2], 0)>>, <<PlainFile(0)>>,
                                TRUE, 0, <<>>, 8, TRUE)
            IN  {[one  EXCEPT !.hdr.blockTableEntries = WrappingEntries],
                 [none EXCEPT !.hdr.hashTableEntries = WrappingEntries],
                 [one  EXCEPT !.hdr.extendedBlockTableOffset = U64(1, OffZero)],
                 [both EXCEPT !.hdr.extendedBlockTableOffset =
                                  U64(1, @.low)]}
          : source \in {"file", "reader"}, strict \in BOOLEAN }

Inputs == OpenInputs \cup {MissingFile} \cup LookupInputs \cup AssembleInputs
          \cup StoredInputs \cup HeaderInputs

\* the fingerprints FileByHash is called with
Fingerprints == {<<h1, KeyA[1], KeyA[2]>> : h1 \in 0..2} \cup {<<1, KeyC[1], KeyC[2]>>}

(***************************************************************************)
(* FileNameHash                                                            *)
(***************************************************************************)
\* A name is the sequence of its bytes.  The hasher reads every byte with
\* '/' taken as '\' and the ASCII letters a-z taken as A-Z.
Canonical(ch) == IF ch = 47 THEN 92
                 ELSE IF ch >= 97 /\ ch <= 122 THEN ch - 32
                 ELSE ch

CanonicalName(name) == [k \in 1..Len(name) |-> Canonical(name[k])]

\* the names FileByName is called with: "a", "b/C" and "x"
Names == {<<97>>, <<98, 47, 67>>, <<120>>}

\* the three hashes of the canonical names of the model: "A" and "B\C" are
\* the names stored in the hash tables, "X" is stored in none
HashOfCanonical ==
    [c \in {CanonicalName(n) : n \in Names} |->
        IF c = <<65>> THEN <<0, KeyA[1], KeyA[2]>>
        ELSE IF c = <<66, 92, 67>> THEN <<1, KeyB[1], KeyB[2]>>
        ELSE <<1, KeyC[1], KeyC[2]>>]

\* FileNameHash(name): h1, h2, h3
FileNameHash(name) == HashOfCanonical[CanonicalName(name)]

(***************************************************************************)
(* The state machine                                                       *)
(***************************************************************************)
VARIABLES
    input,      \* the input being opened (never changes)
    pc,         \* "start", "ready" (open), "probe" (inside FileByHash), "failed",
                \* "panicked" (open ended in a run-time panic), "closed"
    m,          \* the MPQ returned by New / NewFromFile, or NoHandle
    openErr,    \* the error returned by New / NewFromFile
    pos,        \* the current position of the input
    osFile,     \* the os.File of NewFromFile: "none", "open", "closed"
    call,       \* <<h1, h2, h3>> of the current or the last FileByHash call on the open archive
    i,          \* the loop variable of the probe
    visited,    \* the slots the current probe has looked at
    result,     \* what the last FileByHash call did
    via         \* how the current or the last call was made: by hash or by name

vars == <<input, pc, m, openErr, pos, osFile, call, i, visited, result, via>>

ByHash == [byName |-> FALSE, name |-> <<>>]

NoResult == [kind |-> "none", content |-> NilContent, err |-> NoError,
             slot |-> -1, rawBlock |-> -1]

Init ==
    /\ input \in Inputs
    /\ pc = "start"
    /\ m = NoHandle
    /\ openErr = NoError
    /\ pos = OffZero
    /\ osFile = "none"
    /\ call = <<0, 0, 0>>
    /\ i = 0
    /\ visited = {}
    /\ result = NoResult
    /\ via = ByHash

Opened(r) ==
    /\ m' = r.m
    /\ openErr' = r.err
    /\ pos' = r.pos
    /\ pc' = IF r.err = NoError THEN "ready"
             ELSE IF r.err = ErrSliceBounds THEN "panicked"
             ELSE "failed"

NewFromFile ==
    /\ pc = "start"
    /\ input.source = "file"
    /\ IF ~input.exists
       THEN /\ Opened(Failed(ErrNotExist, pos))
            /\ UNCHANGED osFile
       ELSE /\ Opened(diveIn(input, TRUE))
            /\ osFile' = "open"
    /\ UNCHANGED <<input, call, i, visited, result, via>>

New ==
    /\ pc = "start"
    /\ input.source = "reader"
    /\ Opened(diveIn(input, FALSE))
    /\ UNCHANGED <<input, osFile, call, i, visited, result, via>>

\* FileByHash up to the first iteration of the probe
FileByHash(h1, h2, h3) ==
    /\ pc = "ready"
    /\ pc' = "probe"
    /\ call' = <<h1, h2, h3>>
    /\ i' = StartSlot(h1, m.header.hashTableEntries)
    /\ visited' = {}
    /\ result' = NoResult
    /\ UNCHANGED <<input, m, openErr, pos, osFile>>

\* a call of FileByHash by the user of the archive
CallFileByHash(h1, h2, h3) ==
    /\ FileByHash(h1, h2, h3)
    /\ via' = ByHash

\* "return m.FileByHash(FileNameHash(name))", with the hashes in the wrong
\* places
FileByName_swapped(name) ==
    /\ \E h \in {FileNameHash(name)} : FileByHash(h[1], h[3], h[2])
    /\ via' = [byName |-> TRUE, name |-> name]

\* "return m.FileByHash(FileNameHash(name))"
FileByName(name) ==
    /\ \E h \in {FileNameHash(name)} : FileByHash(h[1], h[2], h[3])
    /\ via' = [byName |-> TRUE, name |-> name]

Returned(r) ==
    /\ result' = r.res
    /\ pos' = r.pos
    /\ pc' = "ready"
    /\ i' = 0
    /\ visited' = {}

\* one iteration of the probe loop, and the rest of FileByHash when the
\* iteration leaves the loop
ProbeStep ==
    /\ pc = "probe"
    /\ LET slot == WrapSlot(i, m.header.hashTableEntries)
           d    == IF InRange(slot, Len(m.hashTable))
                   THEN ProbeDecision(At(m.hashTable, slot), call[2], call[3])
                   ELSE "panic"
       IN  IF d = "continue"
           THEN /\ i' = Add32(slot, 1)
                /\ visited' = visited \cup {slot}
                /\ UNCHANGED <<pc, pos, result>>
           ELSE \E r \in {IF d = "panic" THEN Panic("index out of range", -1, -1, pos)
                          ELSE IF d = "break" THEN Return(NilContent, NoError, -1, -1, pos)
                          ELSE Found(m, input, slot, pos)} :
                    Returned(r)
    /\ UNCHANGED <<input, m, openErr, osFile, call, via>>

Close ==
    /\ pc = "ready"
    /\ pc' = "closed"
    /\ osFile' = IF m.file THEN "closed" ELSE osFile
    /\ call' = <<0, 0, 0>>
    /\ result' = NoResult
    /\ via' = ByHash
    /\ UNCHANGED <<input, m, openErr, pos, i, visited>>

Next ==
    \/ NewFromFile
    \/ New
    \/ \E h \in Fingerprints : CallFileByHash(h[1], h[2], h[3])
    \/ \E name \in Names : FileByName(name)
    \/ ProbeStep
    \/ Close

Spec == Init /\ [][Next]_vars

(***************************************************************************)
(* Properties                                                              *)
(***************************************************************************)
CallReturned == pc = "ready" /\ result.kind # "none"

Matches(hashEntry, c) == hashEntry.filePathHashA = c[2] /\ hashEntry.filePathHashB = c[3]

\* the k-th slot of the linear probe of fingerprint c over a table of n slots
ProbeSlot(c, n, k) == (StartSlot(c[1], n) + k) % n

\* the probe of c meets an empty slot before any slot with the hashes of c
EmptyBeforeMatch(hashTable, c) ==
    LET n == Len(hashTable)
    IN  /\ n > 0
        /\ \E k \in 0..(n - 1) :
              /\ At(hashTable, ProbeSlot(c, n, k)).fileBlockIndex = EmptySlot
              /\ \A j \in 0..(k - 1) : ~Matches(At(hashTable, ProbeSlot(c, n, j)), c)

NotFound(r) == r.kind = "return" /\ r.content.isNil /\ r.err = NoError

\* C1: when the probe of the fingerprint reaches an empty slot (0xffffffff)
\* before a slot carrying its two hashes, FileByHash returns a nil slice
\* and a nil error.
C1_AbsentIsNotAnError ==
    (CallReturned /\ EmptyBeforeMatch(m.hashTable, call)) => NotFound(result)

\* a lookup that walked past an occupied slot to an empty one
C1_Witness ==
    /\ CallReturned /\ EmptyBeforeMatch(m.hashTable, call) /\ NotFound(result)
    /\ Len(m.hashTable) >= 2
    /\ At(m.hashTable, ProbeSlot(call, Len(m.hashTable), 0)).fileBlockIndex # EmptySlot

\* C2: the probe looks at no slot twice, so it ends within hashTableEntries
\* iterations whatever the table holds.
C2_ProbeVisitsSlotOnce ==
    pc = "probe" => WrapSlot(i, m.header.hashTableEntries) \notin visited

\* C3: a slot marked deleted (0xfffffffe) is never the slot FileByHash
\* takes as the match.
C3_DeletedSlotNeverMatches ==
    result.slot # -1 => At(m.hashTable, result.slot).fileBlockIndex # DeletedSlot

\* C4: an input of four bytes or more that starts with neither magic fails
\* to open with ErrInvalidArchive, and every open returns, and returns an
\* archive exactly when it returns no error.
C4_OpenResult ==
    pc # "start" =>
        /\ pc # "panicked"
        /\ m.open <=> openErr = NoError
        /\ (input.exists /\ input.size >= 4
            /\ input.head \notin {userDataMagic, headerMagic})
           => (~m.open /\ openErr = ErrInvalidArchive)

\* C5: an input shorter than the four magic bytes fails to open with
\* ErrInvalidArchive.
C5_ShortInputIsInvalidArchive ==
    (pc # "start" /\ input.exists /\ input.size < 4) => openErr = ErrInvalidArchive

\* C6: once the first four bytes have been read, every failure of open is
\* reported as ErrInvalidArchive.
C6_LateFailuresAreInvalidArchive ==
    (pc = "failed" /\ input.exists /\ input.size >= 4) => openErr = ErrInvalidArchive

Unsupported(blockEntry) ==
    \/ HasFlag(blockEntry, beFlagEncrypted)
    \/ HasFlag(blockEntry, beFlagPKWare) /\ ~HasFlag(blockEntry, beFlagCompressedMulti)

\* C7: FileByHash fails, and returns no content, for every matched block
\* that is encrypted or imploded.
C7_UnsupportedStorageFails ==
    (CallReturned /\ result.rawBlock # -1 /\ Unsupported(At(m.blockTable, result.rawBlock)))
        => (result.content.isNil /\ result.err # NoError)

\* the slot at which the probe of c ends: the first that is empty or matches
EndOfProbe(hashTable, c) ==
    LET n == Len(hashTable)
        stop(k) == LET e == At(hashTable, ProbeSlot(c, n, k))
                   IN  e.fileBlockIndex = EmptySlot \/ Matches(e, c)
    IN  IF n = 0 \/ \A k \in 0..(n - 1) : ~stop(k) THEN -1
        ELSE ProbeSlot(c, n, CHOOSE k \in 0..(n - 1) : stop(k) /\ \A j \in 0..(k - 1) : ~stop(j))

\* what a call with fingerprint c returns on a freshly positioned input
FreshResult(h, in, c) ==
    LET slot == EndOfProbe(h.hashTable, c)
    IN  IF slot = -1 THEN Panic("index out of range", -1, -1, OffZero).res
        ELSE IF At(h.hashTable, slot).fileBlockIndex = EmptySlot
        THEN Return(NilContent, NoError, -1, -1, OffZero).res
        ELSE Found(h, in, slot, OffZero).res

\* C8: FileByHash leaves the archive as open built it, and what a call
\* returns is what the same call returns on a fresh input: it depends on
\* the archive and the fingerprint only, not on the position earlier calls
\* left the input at.
C8_LookupsAreIndependent ==
    CallReturned =>
        /\ m = diveIn(input, m.file).m
        /\ result = FreshResult(m, input, call)

\* a file of several blocks was read with the input positioned elsewhere
C8_Witness ==
    /\ CallReturned /\ result.kind = "return" /\ ~result.content.isNil
    /\ Len(result.content.sectors) >= 2
    /\ pos # OffZero
    /\ result.content.sectors[1].src # pos

\* C9: with an extended block table offset above 0 and the words of the
\* table present in the input, open succeeds and holds those words.
C9_ExtendedBlockTableIsRead ==
    (/\ pc # "start" /\ input.exists
     /\ input.head = (IF input.hdrAt = 0 THEN headerMagic ELSE userDataMagic)
     /\ input.hdrMagic = headerMagic
     /\ input.hdr.formatVersion > 0
     /\ input.hdr.extendedBlockTableOffset # U64Zero
     /\ ~Int64Negative(input.hdr.extendedBlockTableOffset)
     /\ input.size >= input.extAt + 2 * Len(input.bt.plain))
    => /\ m.open
       /\ m.extBlockEntryHighOffsets.present
       /\ m.extBlockEntryHighOffsets.words = input.ext

FileBlocks(blockTable) == {j \in 0..(Len(blockTable) - 1) : At(blockTable, j).flags < 0}

\* C10: filesCount is the number of block entries with the file flag,
\* blockEntryIndices lists them in block table order, and FileByHash
\* assembles content from file blocks only.
C10_FileIndices ==
    m.open =>
        LET files == FileBlocks(m.blockTable)
        IN  /\ m.filesCount = Cardinality(files)
            /\ m.filesCount <= m.header.blockTableEntries
            /\ \A k \in 0..(m.filesCount - 1) :
                  /\ At(m.blockEntryIndices, k) \in files
                  /\ Cardinality({j \in files : j < At(m.blockEntryIndices, k)}) = k
            /\ result.rawBlock # -1 => result.rawBlock \in files

\* a table with a free block in front of a file, and that file looked up
C10_Witness ==
    /\ CallReturned /\ m.filesCount = 1 /\ Len(m.blockTable) = 2
    /\ At(m.blockEntryIndices, 0) = 1
    /\ result.rawBlock = 1 /\ ~result.content.isNil

\* C11: what FileByName(name) returns, content and error, is what
\* FileByHash returns for the three hashes of FileNameHash(name), whether
\* the archive holds the name or not.
C11_FileByNameIsFileByHash ==
    (CallReturned /\ via.byName) =>
        /\ call = FileNameHash(via.name)
        /\ result = FreshResult(m, input, FileNameHash(via.name))

\* a file found by a name written in lower case with a forward slash
C11_Witness ==
    /\ CallReturned /\ via.byName /\ via.name = <<98, 47, 67>>
    /\ result.kind = "return" /\ ~result.content.isNil /\ result.err = NoError
    /\ result = FreshResult(m, input, FileNameHash(via.name))

\* the block of the entry lies inside the input
BlockInsideInput(h, in, j) ==
    LET blockEntry == At(h.blockTable, j)
    IN  OffLe(OffAdd(BlockOffsetBase(h, blockEntry, j), OffU32(blockEntry.blockSize)),
              Off(in.size))

\* C12: for a matched single-unit block of file size 0 that is neither
\* encrypted nor compressed and lies inside the input, FileByHash returns
\* a non-nil slice of length 0 and a nil error, which is not the nil slice
\* it returns when the file is not found.
C12_EmptyFileIsPresent ==
    (/\ CallReturned /\ result.rawBlock # -1
     /\ LET blockEntry == At(m.blockTable, result.rawBlock)
        IN  /\ HasFlag(blockEntry, beFlagSingle)
            /\ blockEntry.fileSize = 0
            /\ ~HasFlag(blockEntry, beFlagEncrypted)
            /\ ~HasFlag(blockEntry, beFlagCompressed)
     /\ BlockInsideInput(m, input, result.rawBlock))
    => /\ result.kind = "return" /\ result.err = NoError
       /\ ~result.content.isNil /\ result.content.len = 0
       /\ ~NotFound(result)

\* an empty single-unit file whose block entry stores a few bytes
C12_Witness ==
    /\ CallReturned /\ result.rawBlock # -1
    /\ HasFlag(At(m.blockTable, result.rawBlock), beFlagSingle)
    /\ At(m.blockTable, result.rawBlock).fileSize = 0
    /\ At(m.blockTable, result.rawBlock).blockSize = 3
    /\ ~result.content.isNil /\ result.content.len = 0 /\ result.err = NoError
    /\ Len(result.content.sectors) = 1 /\ result.content.sectors[1].inSize = 3

\* the call matched a slot whose fileBlockIndex lies in the block table or
\* just behind it
MatchedInTable ==
    /\ CallReturned /\ result.slot # -1
    /\ At(m.hashTable, result.slot).fileBlockIndex \in 0..Len(m.blockTable)

\* the file blocks at index fileBlockIndex or later
FilesFrom(blockTable, fileBlockIndex) ==
    {j \in FileBlocks(blockTable) : j >= fileBlockIndex}

\* C13 as stated: the block FileByHash selects is the block at
\* fileBlockIndex only when every block entry below fileBlockIndex has the
\* file flag; whenever an earlier entry has not, it is another block.
C13_CoincideOnlyBehindFiles ==
    (MatchedInTable /\ result.rawBlock # -1) =>
        LET fileBlockIndex == At(m.hashTable, result.slot).fileBlockIndex
        IN  (result.rawBlock = fileBlockIndex)
            => (\A j \in 0..(fileBlockIndex - 1) : j \in FileBlocks(m.blockTable))

\* C13: for a matched slot whose fileBlockIndex is at most the number of
\* block entries, the block FileByHash selects is the first block entry
\* with the file flag at index fileBlockIndex or later, and the file is not
\* found when there is no such entry; the selected block is the block at
\* fileBlockIndex exactly when that entry has the file flag, whatever the
\* entries before it hold.
C13_SelectsFirstFileFrom ==
    MatchedInTable =>
        LET fileBlockIndex == At(m.hashTable, result.slot).fileBlockIndex
            later == FilesFrom(m.blockTable, fileBlockIndex)
        IN  /\ result.rawBlock = (IF later = {} THEN -1
                                  ELSE CHOOSE j \in later : \A k \in later : j <= k)
            /\ (result.rawBlock = fileBlockIndex)
               <=> (fileBlockIndex \in FileBlocks(m.blockTable))
            /\ later = {} => NotFound(result)

\* a file at index 1 behind a block that is no file, found by index 1
C13_Witness ==
    /\ MatchedInTable
    /\ At(m.hashTable, result.slot).fileBlockIndex = 1
    /\ FileBlocks(m.blockTable) = {1}
    /\ result.rawBlock = 1 /\ ~result.content.isNil

\* C14: for a matched slot whose fileBlockIndex is neither mark, whatever
\* its value, FileByHash reads no element outside the block table or
\* blockEntryIndices, and returns a nil slice and a nil error when the
\* file index is filesCount or more.
C14_IndexNeverOutOfRange ==
    (/\ CallReturned /\ result.slot # -1
     /\ At(m.hashTable, result.slot).fileBlockIndex \notin {EmptySlot, DeletedSlot})
    => /\ ~(result.kind = "panic" /\ result.err = "index out of range")
       /\ FilesFrom(m.blockTable, At(m.hashTable, result.slot).fileBlockIndex) = {}
          => NotFound(result)

RECURSIVE SumUnpacked(_)
SumUnpacked(sectors) ==
    IF sectors = <<>> THEN 0
    ELSE Add32(sectors[1].unpackedSize, SumUnpacked(Tail(sectors)))

\* C15: when FileByHash returns content, the unpacked sizes of the blocks
\* it processed add up to fileSize, each block starts in the content where
\* the one before it ended, and there is one block for a single unit and
\* at least one for every other file that is not empty.
C15_SectorsCoverFile ==
    (CallReturned /\ result.kind = "return" /\ ~result.content.isNil)
    => LET sectors == result.content.sectors
       IN  /\ SumUnpacked(sectors) = result.content.len
           /\ \A k \in 1..Len(sectors) :
                 sectors[k].dst = SumUnpacked(SubSeq(sectors, 1, k - 1))
           /\ result.content.len # 0 => Len(sectors) >= 1

\* the block is stored as it is: not compressed, not imploded, not encrypted
StoredPlain(blockEntry) ==
    ~HasFlag(blockEntry, beFlagCompressed) /\ ~HasFlag(blockEntry, beFlagEncrypted)

\* C16: when FileByHash returns the content of a block stored as it is,
\* every block of it was read with inSize equal to its unpacked size from
\* blockOffsetBase plus its place in the file, and was copied whole to that
\* place of the content, so that the content is the fileSize bytes of the
\* input at blockOffsetBase.
C16_StoredFileIsCopied ==
    (/\ CallReturned /\ result.rawBlock # -1
     /\ StoredPlain(At(m.blockTable, result.rawBlock))
     /\ result.kind = "return" /\ ~result.content.isNil)
    => LET base == BlockOffsetBase(m, At(m.blockTable, result.rawBlock), result.rawBlock)
           sectors == result.content.sectors
       IN  \A k \in 1..Len(sectors) :
              /\ sectors[k].op = "copy"
              /\ sectors[k].inSize = sectors[k].unpackedSize
              /\ sectors[k].written = sectors[k].unpackedSize
              /\ sectors[k].src = OffAdd(base, OffU32(sectors[k].dst))

\* C17: in every archive open returns, blockSize is 512 * 2^sectorSizeShift
\* and is not 0, and FileByHash never divides by zero.
C17_BlockSizeIsPositive ==
    m.open =>
        /\ m.blockSize # 0
        /\ m.header.sectorSizeShift < 22 => m.blockSize = 512 * 2 ^ m.header.sectorSizeShift
        /\ ~(result.kind = "panic" /\ result.err = "integer divide by zero")

\* C18: no os.File is left open once it cannot be closed any more: when
\* NewFromFile fails, the file it opened is closed on return; after Close
\* the file of NewFromFile is closed, and an archive made by New has no
\* file.
C18_FileIsReleased ==
    /\ pc = "failed" => osFile # "open"
    /\ pc = "closed" => osFile = (IF m.file THEN "closed" ELSE "none")

====
